---- MODULE Spec2Model ----
(***************************************************************************)
(* Capture orchestration core of the digitization toolkit backend:         *)
(* capture/service.py (single and dual capture, filenames, manifest        *)
(* append), capture/manifestHandler.py (append of capture and project      *)
(* records), capture/project_manager.py (project_init) and the capture     *)
(* endpoints of app/api/cameras.py.                                        *)
(*                                                                         *)
(* Spec follows one capture request from the call to its outcome, with the *)
(* two executor workers of a dual capture interleaving freely.             *)
(* SpecManifest drives sequences of manifest appends of both kinds.        *)
(* SpecRegistry drives capture/camera_registry.py (registry objects and    *)
(* the document they save), the calibration endpoints and the config       *)
(* resolution of project_manager.py; SpecBackend drives the handle cache   *)
(* of capture/backends/picamera2_backend.py.  SpecCalibrationStore drives  *)
(* the writers and the reader of stored calibrations, SpecCalibration the  *)
(* procedures of capture/calibration.py on the handles they open, and      *)
(* SpecRpicam the capture calls of capture/backends/subprocess_backend.py. *)
(***************************************************************************)
EXTENDS Integers, Sequences, FiniteSets, TLC

\* ---------------------------------------------------------------- bounds
MaxTime == 2            \* wall clock ticks (one tick = one millisecond)
MaxStagger == 1         \* largest stagger_ms a caller passes
MaxAppends == 4         \* append_manifest_record calls in SpecManifest

Cameras == {0, 1}       \* camera indices a caller may name
None == "None"          \* Python None, for string-valued fields
NoIndex == <<>>         \* index=None / "" of image_filename (falsy)
NoSize == <<>>          \* img_size=None of image_filename

\* ------------------------------------------------------- camera.py values
IMG_SIZE_MEDIUM == <<3840, 2160>>
Encodings == {<<"jpg">>, <<"png">>}

\* CameraConfig values a caller may pass (camera_index, encoding, img_size)
CameraConfig(i, enc) == [camera_index |-> i, encoding |-> enc, img_size |-> IMG_SIZE_MEDIUM]
Configs == {CameraConfig(i, enc) : i \in Cameras, enc \in Encodings}

VARIABLES
    now,             \* wall clock, in milliseconds
    connected,       \* camera indices rpicam-still can list and open
    req,             \* the frame of the capture call
    images,          \* images/main: files written, [slot, name, complete]
    manifest,        \* metadata/manifest.jsonl, a sequence of lines
    projectManifest, \* metadata/project_manifest.jsonl, a sequence of lines
    appends,         \* per kind: records whose line was written, in call order
    calls,           \* append_manifest_record calls made in SpecManifest
    hwList,          \* Picamera2.global_camera_info(): the unit at each index
    regFile,         \* camera_registry.json, the "cameras" document
    inst,            \* CameraRegistry objects: self.cameras of each, or unborn
    regClock,        \* datetime.now() as seen by the registry, one step per event
    resolved,        \* last answer of default_camera_config_from_registry
    camera_info,     \* Picamera2Backend._camera_info (cached listing)
    picams,          \* Picamera2Backend._cameras: index -> handle
    handles,         \* every Picamera2 handle the backend opened, by number
    last_configs,    \* Picamera2Backend._last_configs
    format_mode,     \* Picamera2Backend._format_mode
    ops,             \* backend calls made in SpecBackend
    lastCapture,     \* the last Picamera2Backend.capture_image call
    lastConnected,   \* the last Picamera2Backend.is_camera_connected call
    rpicamLog,       \* the RpicamBackend.capture_image calls, in call order
    calRun,          \* the last run of a CameraCalibration procedure
    calHandles       \* the Picamera2 handles the calibration runs opened

coreVars == <<now, connected, req, images, manifest, projectManifest, appends, calls>>
registryVars == <<hwList, regFile, inst, regClock, resolved>>
picameraVars == <<camera_info, picams, handles, last_configs, format_mode, ops,
                  lastCapture, lastConnected>>
rpicamVars == <<rpicamLog>>
calibrationVars == <<calRun, calHandles>>
backendVars == <<picameraVars, rpicamVars, calibrationVars>>
vars == <<coreVars, registryVars, backendVars>>

Range(s) == {s[i] : i \in DOMAIN s}

\* ----------------------------------------------------------- filenames
\* datetime.now(timezone.utc) formatted to the millisecond
TimestampIndex(t) == <<ToString(t)>>

\* image_filename without the camera index in the name
image_filename_NoCamera(camera_index, index, img_size, image_encoding, t) ==
    LET idx == IF index = NoIndex THEN TimestampIndex(t) ELSE index
        sized == IF img_size # NoSize
                 THEN idx \o <<"_", ToString(img_size[1]), "x", ToString(img_size[2])>>
                 ELSE idx
    IN  sized \o <<".">> \o image_encoding

\* service.py image_filename: a filename is a sequence of string tokens
image_filename(camera_index, index, img_size, image_encoding, t) ==
    LET idx == IF index = NoIndex THEN TimestampIndex(t) ELSE index
        base == idx \o <<"_c", ToString(camera_index)>>
        sized == IF img_size # NoSize
                 THEN base \o <<"_", ToString(img_size[1]), "x", ToString(img_size[2])>>
                 ELSE base
    IN  IF Head(image_encoding) = "."
        THEN sized \o image_encoding
        ELSE sized \o <<".">> \o image_encoding

\* ----------------------------------------------------------- manifest
\* generate_manifest_record, the roles given when the caller passes none
Roles(n) == IF n = 1 THEN <<"single">>
            ELSE IF n = 2 THEN <<"left", "right">>
            ELSE [i \in 1..n |-> "cam"]

\* generate_manifest_record testing "if stagger:" (0 is dropped)
generate_manifest_record_Truthy(id, img_paths, cam_configs, pair_id, stagger) ==
    [capture_id |-> id,
     pair_id |-> pair_id,
     files |-> [i \in 1..Len(img_paths) |->
                   [role |-> Roles(Len(img_paths))[i], name |-> img_paths[i]]],
     cameras |-> [i \in 1..Len(cam_configs) |-> cam_configs[i].camera_index],
     timing |-> {<<"stagger_ms", x>> : x \in stagger \ {0}},
     status |-> "success",
     error |-> None]

\* service.py generate_manifest_record; pair_id is NoIndex and stagger {}
\* when the caller leaves them None; status takes CaptureRecord's default
generate_manifest_record(id, img_paths, cam_configs, pair_id, stagger) ==
    [capture_id |-> id,
     pair_id |-> pair_id,
     files |-> [i \in 1..Len(img_paths) |->
                   [role |-> Roles(Len(img_paths))[i], name |-> img_paths[i]]],
     cameras |-> [i \in 1..Len(cam_configs) |-> cam_configs[i].camera_index],
     timing |-> {<<"stagger_ms", x>> : x \in stagger},
     status |-> "success",
     error |-> None]

\* open(manifest_path, 'w'): the file is truncated before the write
AppendLine_Truncate(file, line) == <<line>>

\* open(manifest_path, 'a') then write of one line
AppendLine(file, line) == Append(file, line)

\* append_manifest_record: mkdir, open(..., 'a'), write, flush, fsync.
\* mode ok: all succeed; fail_open: mkdir/open raises, nothing is written;
\* fail_sync: the line is written and flush/fsync raises.
AppendModes == {"ok", "fail_open", "fail_sync"}
RecordTypes == {"capture", "project"}

\* manifestHandler.py append_manifest_record(project_root, record, record_type)
append_manifest_record(record, record_type, mode) ==
    LET wrote == record_type \in RecordTypes /\ mode # "fail_open"
    IN  /\ manifest' = IF wrote /\ record_type = "capture"
                       THEN AppendLine(manifest, record) ELSE manifest
        /\ projectManifest' = IF wrote /\ record_type = "project"
                              THEN AppendLine(projectManifest, record)
                              ELSE projectManifest
        /\ appends' = IF wrote
                      THEN [appends EXCEPT ![record_type] = Append(@, record)]
                      ELSE appends

\* service.py append_manifest_record(project_root, record): manifest.jsonl only
service_append_manifest_record(record, mode) ==
    LET wrote == mode # "fail_open"
    IN  /\ manifest' = IF wrote THEN AppendLine(manifest, record) ELSE manifest
        /\ appends' = IF wrote
                      THEN [appends EXCEPT !["capture"] = Append(@, record)]
                      ELSE appends
        /\ UNCHANGED projectManifest

\* ----------------------------------------------------------- the request
\* The frame of the capture call.  w[k] is the state of the backend capture
\* of camera slot k: none, queued (submitted to the executor), picked (taken
\* from the work queue by a worker), running (rpicam-still launched), ok,
\* exit, timeout.  started / finished record the order in which the slots'
\* captures began and ended, checks the answers of the connectivity checks,
\* got the slots whose result the caller's thread retrieved.
IdleReq == [kind |-> "none", via |-> "direct", pc |-> "idle", check |-> FALSE,
            cfg |-> <<>>, incl |-> FALSE, stagger |-> 0, index |-> NoIndex,
            fname |-> <<>>, w |-> <<>>, started |-> <<>>, finished |-> <<>>,
            tSubmit |-> <<>>, checks |-> <<>>, got |-> {}, appendMode |-> None,
            outcome |-> "pending", err |-> None, response |-> None]

\* ------------------------------------------------- camera hardware
\* The entries Picamera2.global_camera_info() can list.  An Id is the
\* device path split at '/', each part as <<"i2c@", rest>> when it starts
\* with 'i2c@' and <<"", part>> otherwise; the empty Id is <<>>.
Units == {"A", "B", "N"}
RawInfo(u) ==
    IF u = "A" THEN [Model |-> "imx519",
                     Id |-> << <<"", "base">>, <<"i2c@", "88000">>, <<"", "imx519@1a">> >>]
    ELSE IF u = "B" THEN [Model |-> "imx519",
                          Id |-> << <<"", "base">>, <<"", "usb@2">> >>]
    ELSE [Model |-> "imx519", Id |-> <<>>]

\* the listings: at most one unit per index, no unit listed twice
Placements ==
    {<<>>} \cup {<<u>> : u \in Units}
           \cup {p \in Units \X Units : p[1] # p[2]}

\* get_camera_hardware_id, the identity built from one listing entry: the
\* first 'i2c@' part of the Id without its prefix, else the last part of
\* the Id, else (empty Id) the index the entry was listed at
HwIdOf(info, camera_index) ==
    LET model == info.Model
        camera_id == info.Id
        i2c_part == {k \in DOMAIN camera_id : camera_id[k][1] = "i2c@"}
        first == CHOOSE k \in i2c_part : \A j \in i2c_part : k <= j
    IN  IF camera_id # <<>>
        THEN IF i2c_part # {}
             THEN <<model, "_", camera_id[first][2]>>
             ELSE <<model, "_", camera_id[Len(camera_id)][2]>>
        ELSE <<model, "_idx", ToString(camera_index)>>

NoHwId == <<>>          \* hardware_id None

\* get_camera_hardware_id(camera_index) on the listing hw
get_camera_hardware_id(hw, camera_index) ==
    IF camera_index >= Len(hw) THEN NoHwId
    ELSE HwIdOf(RawInfo(hw[camera_index + 1]), camera_index)

\* every identity a listing can yield
HwIds == {HwIdOf(RawInfo(u), i) : u \in Units, i \in Cameras}

\* a key that is not in self.cameras
NoEntry ==
    [present |-> FALSE, model |-> None, last_seen_index |-> 0,
     first_registered_at |-> 0, last_seen_at |-> 0,
     machine_id |-> None, label |-> None,
     calibration |-> [empty |-> TRUE, camera_index |-> 0,
                      focus |-> [empty |-> TRUE, success |-> FALSE,
                                 lens_position |-> {}, distance_meters |-> {}],
                      white_balance |-> [empty |-> TRUE, success |-> FALSE]],
     calibrated_at |-> {}]

\* the dict {}
EmptyRegistry == [id \in HwIds |-> NoEntry]

\* ---------------------------------------------- calibration values
\* A sub-record of a calibration profile; empty is the dict {}.
\* lens_position is {} for None and {x} for the number x.
EmptyFocus == [empty |-> TRUE, success |-> FALSE, lens_position |-> {},
               distance_meters |-> {}]
EmptyWhiteBalance == [empty |-> TRUE, success |-> FALSE]

\* CameraCalibration.__init__: calibration_data of a new calibrator
NewCalibrationData(camera_index) ==
    [empty |-> FALSE, camera_index |-> camera_index,
     focus |-> EmptyFocus, white_balance |-> EmptyWhiteBalance]

\* the dict {} stored when register_camera gets no calibration
EmptyCalibration ==
    [empty |-> TRUE, camera_index |-> 0,
     focus |-> EmptyFocus, white_balance |-> EmptyWhiteBalance]

\* the answer before default_camera_config_from_registry was ever called
NoAnswer == [called |-> FALSE, camera_index |-> 0, raised |-> FALSE,
             hw_id |-> <<>>, autofocus_on_capture |-> TRUE, lens_position |-> {}]

\* before the first capture_image / is_camera_connected / calibration run
NoCapture == [called |-> FALSE, camera_config |-> {}, last_config |-> {},
              last_format |-> {}, new_handle |-> FALSE, reconfigured |-> FALSE,
              requested |-> FALSE, raised |-> FALSE, configuration |-> {}]
NoCheck == [called |-> FALSE, camera_index |-> 0, answer |-> FALSE]
NoRun == [kind |-> "none", runs |-> 0, camera_index |-> 0, cycle |-> FALSE,
          reading |-> {}, raised |-> FALSE,
          calibration_data |-> NewCalibrationData(0)]

UnbornRegistry == [born |-> FALSE, cameras |-> EmptyRegistry]

Instances == {1}        \* long-lived CameraRegistry objects (endpoints make their own)

InitCore ==
    /\ now = 0
    /\ req = IdleReq
    /\ images = {}
    /\ manifest = <<>>
    /\ projectManifest = <<>>
    /\ appends = [k \in RecordTypes |-> <<>>]
    /\ calls = 0

\* no camera_registry.json yet (_load_registry answers {}), no object yet
InitRegistryFile ==
    /\ regFile = EmptyRegistry
    /\ inst = [i \in Instances |-> UnbornRegistry]
    /\ regClock = 0
    /\ resolved = NoAnswer

\* Picamera2Backend.__init__
InitBackend ==
    /\ camera_info = {}
    /\ picams = [i \in Cameras |-> 0]
    /\ handles = <<>>
    /\ last_configs = [i \in Cameras |-> {}]
    /\ format_mode = [i \in Cameras |-> {}]
    /\ ops = 0
    /\ lastCapture = NoCapture
    /\ lastConnected = NoCheck
    /\ rpicamLog = <<>>
    /\ calRun = NoRun
    /\ calHandles = <<>>

Init ==
    /\ InitCore
    /\ connected \in SUBSET Cameras
    /\ hwList = <<"A", "B">>
    /\ InitRegistryFile
    /\ InitBackend

\* service.py is_camera_connected: rpicam-still --list-cameras lists the
\* index; a failing or timed-out listing answers False
is_camera_connected(camera_index, listOk) == listOk /\ camera_index \in connected

WorkerEnded(st) == st \in {"ok", "exit", "timeout"}

\* raise: the call ends with an exception of class e
Raise(f, e) == [f EXCEPT !.pc = "raised", !.outcome = "raised", !.err = e]

\* --------------------------------------------------- backend capture
\* capture_image from the launch of rpicam-still (subprocess.run) to its
\* end: exit code 0 leaves the image at output_path, a non-zero exit raises
\* CalledProcessError, the 10 s timeout raises TimeoutExpired and may leave
\* a partly written file.  The command cannot succeed on an absent camera.
CaptureResults(camera_index) ==
    {"exit", "timeout"} \cup (IF camera_index \in connected THEN {"ok"} ELSE {})

BackendWrite(k, result, partial) ==
    images' = IF result = "ok"
              THEN images \cup {[slot |-> k, name |-> req.fname[k], complete |-> TRUE]}
              ELSE IF result = "timeout" /\ partial
              THEN images \cup {[slot |-> k, name |-> req.fname[k], complete |-> FALSE]}
              ELSE images

\* ------------------------------------------------------ the caller
\* A caller starts single_capture_image; through the API (trigger_capture)
\* the config is the one of default_camera_config_from_registry (jpg) and
\* the service is called with check_camera=False after the endpoint's check.
SingleStart ==
    /\ req.kind = "none"
    /\ calls = 0
    /\ \E via \in {"direct", "api"}, c \in Configs, chk \in BOOLEAN, inc \in BOOLEAN :
          /\ via = "api" => c.encoding = <<"jpg">> /\ chk = FALSE
          /\ req' = [IdleReq EXCEPT !.kind = "single", !.via = via,
                                    !.pc = IF via = "api" THEN "api_check" ELSE "check1",
                                    !.check = chk, !.cfg = <<c>>, !.incl = inc,
                                    !.w = <<"none">>]
    /\ UNCHANGED <<now, connected, images, manifest, projectManifest, appends, calls, registryVars, backendVars>>

\* A caller starts dual_capture_image; trigger_dual_capture always names
\* camera 0 and camera 1 and passes check_camera=False.
DualStart ==
    /\ req.kind = "none"
    /\ calls = 0
    /\ \E via \in {"direct", "api"}, c1 \in Configs, c2 \in Configs,
          chk \in BOOLEAN, inc \in BOOLEAN, s \in 0..MaxStagger :
          /\ via = "api" => /\ c1 = CameraConfig(0, <<"jpg">>)
                            /\ c2 = CameraConfig(1, <<"jpg">>)
                            /\ chk = FALSE
          /\ req' = [IdleReq EXCEPT !.kind = "dual", !.via = via,
                                    !.pc = IF via = "api" THEN "api_check" ELSE "check1",
                                    !.check = chk, !.cfg = <<c1, c2>>, !.incl = inc,
                                    !.stagger = s, !.w = <<"none", "none">>]
    /\ UNCHANGED <<now, connected, images, manifest, projectManifest, appends, calls, registryVars, backendVars>>

\* cameras.py trigger_capture / trigger_dual_capture: the endpoint's own
\* connectivity check of each index in turn, answering success=False on the
\* first index that is not connected, before the service is called
ApiCheck ==
    /\ req.pc = "api_check"
    /\ LET k == Len(req.checks) + 1
       IN  \E listOk \in BOOLEAN :
             LET ans == is_camera_connected(req.cfg[k].camera_index, listOk)
                 g == [req EXCEPT !.checks = Append(@, ans)]
             IN  req' = IF ~ans
                        THEN [g EXCEPT !.pc = "responded", !.outcome = "not_called",
                                       !.err = "connectivity", !.response = "failure"]
                        ELSE IF k < Len(req.cfg) THEN g
                        ELSE [g EXCEPT !.pc = "check1"]
    /\ UNCHANGED <<now, connected, images, manifest, projectManifest, appends, calls, registryVars, backendVars>>

\* ------------------------------------------------------ single capture
\* single_capture_image, the connectivity check
SingleCheck ==
    /\ req.pc = "check1"
    /\ req.kind = "single"
    /\ IF req.check
       THEN \E listOk \in BOOLEAN :
              LET ans == is_camera_connected(req.cfg[1].camera_index, listOk)
                  g == [req EXCEPT !.checks = Append(@, ans)]
              IN  req' = IF ans THEN [g EXCEPT !.pc = "capture"]
                         ELSE Raise(g, "connectivity")
       ELSE req' = [req EXCEPT !.pc = "capture"]
    /\ UNCHANGED <<now, connected, images, manifest, projectManifest, appends, calls, registryVars, backendVars>>

\* single_capture_image -> capture_image: the filename is generated from
\* the clock and rpicam-still is launched
SingleCaptureBegin ==
    /\ req.pc = "capture"
    /\ LET c == req.cfg[1]
           name == image_filename(c.camera_index, NoIndex,
                                  IF req.incl THEN c.img_size ELSE NoSize,
                                  c.encoding, now)
       IN  req' = [req EXCEPT !.pc = "wait", !.fname = <<name>>,
                              !.w = <<"running">>, !.started = <<1>>]
    /\ UNCHANGED <<now, connected, images, manifest, projectManifest, appends, calls, registryVars, backendVars>>

\* capture_image returns the path or re-raises the subprocess error
SingleCaptureEnd ==
    /\ req.pc = "wait"
    /\ \E result \in CaptureResults(req.cfg[1].camera_index), partial \in BOOLEAN :
          /\ BackendWrite(1, result, partial)
          /\ LET g == [req EXCEPT !.w = <<result>>, !.finished = <<1>>]
             IN  req' = IF result = "ok" THEN [g EXCEPT !.pc = "record", !.got = {1}]
                        ELSE Raise(g, "capture")
    /\ UNCHANGED <<now, connected, manifest, projectManifest, appends, calls, registryVars, backendVars>>

\* a failed append is logged and the path is returned all the same
SingleRecord_Swallow ==
    /\ req.pc = "record"
    /\ req.kind = "single"
    /\ LET record == generate_manifest_record(1, req.fname, req.cfg, NoIndex, {})
       IN  \E mode \in AppendModes :
             /\ service_append_manifest_record(record, mode)
             /\ req' = [req EXCEPT !.appendMode = mode, !.pc = "returned",
                                   !.outcome = "returned"]
    /\ UNCHANGED <<now, connected, images, calls, registryVars, backendVars>>

\* single_capture_image: build the record, append it, return the path
SingleRecord ==
    /\ req.pc = "record"
    /\ req.kind = "single"
    /\ LET record == generate_manifest_record(1, req.fname, req.cfg, NoIndex, {})
       IN  \E mode \in AppendModes :
             /\ service_append_manifest_record(record, mode)
             /\ LET g == [req EXCEPT !.appendMode = mode]
                IN  req' = IF mode = "ok"
                           THEN [g EXCEPT !.pc = "returned", !.outcome = "returned"]
                           ELSE Raise(g, "manifest")
    /\ UNCHANGED <<now, connected, images, calls, registryVars, backendVars>>

\* -------------------------------------------------------- dual capture
\* dual_capture_image, the check of the first camera index
DualCheck1 ==
    /\ req.pc = "check1"
    /\ req.kind = "dual"
    /\ IF req.check
       THEN \E listOk \in BOOLEAN :
              LET ans == is_camera_connected(req.cfg[1].camera_index, listOk)
                  g == [req EXCEPT !.checks = Append(@, ans)]
              IN  req' = IF ans THEN [g EXCEPT !.pc = "check2"]
                         ELSE Raise(g, "connectivity")
       ELSE req' = [req EXCEPT !.pc = "submit1"]
    /\ UNCHANGED <<now, connected, images, manifest, projectManifest, appends, calls, registryVars, backendVars>>

\* the second check's answer is ignored
DualCheck2_Ignored ==
    /\ req.pc = "check2"
    /\ \E listOk \in BOOLEAN :
          LET ans == is_camera_connected(req.cfg[2].camera_index, listOk)
          IN  req' = [req EXCEPT !.checks = Append(@, ans), !.pc = "submit1"]
    /\ UNCHANGED <<now, connected, images, manifest, projectManifest, appends, calls, registryVars, backendVars>>

\* dual_capture_image, the check of the second camera index
DualCheck2 ==
    /\ req.pc = "check2"
    /\ \E listOk \in BOOLEAN :
          LET ans == is_camera_connected(req.cfg[2].camera_index, listOk)
              g == [req EXCEPT !.checks = Append(@, ans)]
          IN  req' = IF ans THEN [g EXCEPT !.pc = "submit1"]
                     ELSE Raise(g, "connectivity")
    /\ UNCHANGED <<now, connected, images, manifest, projectManifest, appends, calls, registryVars, backendVars>>

\* each filename gets a timestamp of its own, the second a tick later
DualSubmit1_OwnIndex ==
    /\ req.pc = "submit1"
    /\ LET timestamp_index == TimestampIndex(now)
           fn(k) == image_filename(req.cfg[k].camera_index, TimestampIndex(now + k - 1),
                                   IF req.incl THEN req.cfg[k].img_size ELSE NoSize,
                                   req.cfg[k].encoding, now)
       IN  req' = [req EXCEPT !.index = timestamp_index,
                              !.fname = <<fn(1), fn(2)>>,
                              !.w = <<"queued", "none">>,
                              !.tSubmit = <<now>>,
                              !.pc = IF req.stagger > 0 THEN "sleep" ELSE "submit2"]
    /\ UNCHANGED <<now, connected, images, manifest, projectManifest, appends, calls, registryVars, backendVars>>

\* dual_capture_image: one timestamp index, both filenames, then the first
\* capture is submitted to the executor
DualSubmit1 ==
    /\ req.pc = "submit1"
    /\ LET timestamp_index == TimestampIndex(now)
           fn(k) == image_filename(req.cfg[k].camera_index, timestamp_index,
                                   IF req.incl THEN req.cfg[k].img_size ELSE NoSize,
                                   req.cfg[k].encoding, now)
       IN  req' = [req EXCEPT !.index = timestamp_index,
                              !.fname = <<fn(1), fn(2)>>,
                              !.w = <<"queued", "none">>,
                              !.tSubmit = <<now>>,
                              !.pc = IF req.stagger > 0 THEN "sleep" ELSE "submit2"]
    /\ UNCHANGED <<now, connected, images, manifest, projectManifest, appends, calls, registryVars, backendVars>>

\* the sleep returns at once
DualSleep_NoDelay ==
    /\ req.pc = "sleep"
    /\ req' = [req EXCEPT !.pc = "submit2"]
    /\ UNCHANGED <<now, connected, images, manifest, projectManifest, appends, calls, registryVars, backendVars>>

\* time.sleep(stagger_ms / 1000.0) returns once the delay has elapsed
DualSleep ==
    /\ req.pc = "sleep"
    /\ now >= req.tSubmit[1] + req.stagger
    /\ req' = [req EXCEPT !.pc = "submit2"]
    /\ UNCHANGED <<now, connected, images, manifest, projectManifest, appends, calls, registryVars, backendVars>>

\* the second capture is submitted to the executor
DualSubmit2 ==
    /\ req.pc = "submit2"
    /\ req' = [req EXCEPT !.w[2] = "queued", !.tSubmit = Append(@, now),
                          !.pc = "join1"]
    /\ UNCHANGED <<now, connected, images, manifest, projectManifest, appends, calls, registryVars, backendVars>>

\* a worker thread of the executor takes the oldest queued work item
WorkerPick(k) ==
    /\ req.kind = "dual"
    /\ req.w[k] = "queued"
    /\ \A j \in 1..(k - 1) : req.w[j] # "queued"
    /\ req' = [req EXCEPT !.w[k] = "picked"]
    /\ UNCHANGED <<now, connected, images, manifest, projectManifest, appends, calls, registryVars, backendVars>>

\* capture_with_timing -> capture_image: rpicam-still is launched
WorkerRun(k) ==
    /\ req.kind = "dual"
    /\ req.w[k] = "picked"
    /\ req' = [req EXCEPT !.w[k] = "running", !.started = Append(@, k)]
    /\ UNCHANGED <<now, connected, images, manifest, projectManifest, appends, calls, registryVars, backendVars>>

\* a failed capture is queued for the worker again
WorkerEnd_Retry(k) ==
    /\ req.kind = "dual"
    /\ req.w[k] = "running"
    /\ \E result \in CaptureResults(req.cfg[k].camera_index), partial \in BOOLEAN :
          /\ BackendWrite(k, result, partial)
          /\ req' = IF result = "ok"
                    THEN [req EXCEPT !.w[k] = result, !.finished = Append(@, k)]
                    ELSE [req EXCEPT !.w[k] = "picked"]
    /\ UNCHANGED <<now, connected, manifest, projectManifest, appends, calls, registryVars, backendVars>>

\* capture_with_timing returns (path, elapsed) or the worker's future holds
\* the subprocess error
WorkerEnd(k) ==
    /\ req.kind = "dual"
    /\ req.w[k] = "running"
    /\ \E result \in CaptureResults(req.cfg[k].camera_index), partial \in BOOLEAN :
          /\ BackendWrite(k, result, partial)
          /\ req' = [req EXCEPT !.w[k] = result, !.finished = Append(@, k)]
    /\ UNCHANGED <<now, connected, manifest, projectManifest, appends, calls, registryVars, backendVars>>

\* future1.result(): the first capture's result, or its exception
DualJoin1 ==
    /\ req.pc = "join1"
    /\ WorkerEnded(req.w[1])
    /\ req' = IF req.w[1] = "ok"
              THEN [req EXCEPT !.got = @ \cup {1}, !.pc = "join2"]
              ELSE [req EXCEPT !.err = "capture", !.pc = "shutdown"]
    /\ UNCHANGED <<now, connected, images, manifest, projectManifest, appends, calls, registryVars, backendVars>>

\* future2.result(): the second capture's result, or its exception
DualJoin2 ==
    /\ req.pc = "join2"
    /\ WorkerEnded(req.w[2])
    /\ req' = IF req.w[2] = "ok"
              THEN [req EXCEPT !.got = @ \cup {2}, !.pc = "shutdown"]
              ELSE [req EXCEPT !.err = "capture", !.pc = "shutdown"]
    /\ UNCHANGED <<now, connected, images, manifest, projectManifest, appends, calls, registryVars, backendVars>>

\* leaving the with block: executor.shutdown(wait=True) returns once every
\* worker has ended; a pending exception then propagates to the caller
DualShutdown ==
    /\ req.pc = "shutdown"
    /\ \A k \in DOMAIN req.w : WorkerEnded(req.w[k])
    /\ req' = IF req.err = None THEN [req EXCEPT !.pc = "record"]
              ELSE Raise(req, req.err)
    /\ UNCHANGED <<now, connected, images, manifest, projectManifest, appends, calls, registryVars, backendVars>>

\* the record lists the files in the order the workers completed
DualRecord_ByCompletion ==
    /\ req.pc = "record"
    /\ req.kind = "dual"
    /\ LET ord == req.finished
           record == generate_manifest_record(1, [i \in 1..2 |-> req.fname[ord[i]]],
                                              [i \in 1..2 |-> req.cfg[ord[i]]],
                                              req.index, {req.stagger})
       IN  \E mode \in AppendModes :
             /\ service_append_manifest_record(record, mode)
             /\ LET g == [req EXCEPT !.appendMode = mode]
                IN  req' = IF mode = "ok"
                           THEN [g EXCEPT !.pc = "returned", !.outcome = "returned"]
                           ELSE Raise(g, "manifest")
    /\ UNCHANGED <<now, connected, images, calls, registryVars, backendVars>>

\* dual_capture_image: build the record of both cameras, append it, return
DualRecord ==
    /\ req.pc = "record"
    /\ req.kind = "dual"
    /\ LET record == generate_manifest_record(1, req.fname, req.cfg, req.index,
                                              {req.stagger})
       IN  \E mode \in AppendModes :
             /\ service_append_manifest_record(record, mode)
             /\ LET g == [req EXCEPT !.appendMode = mode]
                IN  req' = IF mode = "ok"
                           THEN [g EXCEPT !.pc = "returned", !.outcome = "returned"]
                           ELSE Raise(g, "manifest")
    /\ UNCHANGED <<now, connected, images, calls, registryVars, backendVars>>

\* ----------------------------------------------------------- endpoints
\* trigger_capture / trigger_dual_capture after the service call: the
\* database rows are written and success=True is answered; any exception,
\* of the service or of the database, is answered with success=False
ApiRespond ==
    /\ req.via = "api"
    /\ req.pc \in {"returned", "raised"}
    /\ \E dbOk \in BOOLEAN :
          req' = [req EXCEPT !.pc = "responded",
                             !.response = IF req.outcome = "returned" /\ dbOk
                                          THEN "success" ELSE "failure"]
    /\ UNCHANGED <<now, connected, images, manifest, projectManifest, appends, calls, registryVars, backendVars>>

\* ----------------------------------------------------------- environment
Tick ==
    /\ now < MaxTime
    /\ now' = now + 1
    /\ UNCHANGED <<connected, req, images, manifest, projectManifest, appends, calls, registryVars, backendVars>>

Plug(i) ==
    /\ i \notin connected
    /\ connected' = connected \cup {i}
    /\ UNCHANGED <<now, req, images, manifest, projectManifest, appends, calls, registryVars, backendVars>>

Unplug(i) ==
    /\ i \in connected
    /\ connected' = connected \ {i}
    /\ UNCHANGED <<now, req, images, manifest, projectManifest, appends, calls, registryVars, backendVars>>

\* ------------------------------------------------- manifest appends
\* A caller of manifestHandler.append_manifest_record with a capture record
ManifestAppendCapture ==
    /\ req.kind = "none"
    /\ calls < MaxAppends
    /\ \E c \in Configs, mode \in AppendModes :
          LET name == image_filename(c.camera_index, NoIndex, NoSize, c.encoding, now)
              record == generate_manifest_record(calls + 1, <<name>>, <<c>>, NoIndex, {})
          IN  append_manifest_record(record, "capture", mode)
    /\ calls' = calls + 1
    /\ UNCHANGED <<now, connected, req, images, registryVars, backendVars>>

\* manifestHandler.py generate_manifest_project
generate_manifest_project(id) == [project_id |-> id, project_name |-> "project"]

\* project_manager.py project_init: the directories are created and the
\* ProjectInfo record is appended with record_type="project"
project_init ==
    /\ req.kind = "none"
    /\ calls < MaxAppends
    /\ \E mode \in AppendModes :
          append_manifest_record(generate_manifest_project(calls + 1), "project", mode)
    /\ calls' = calls + 1
    /\ UNCHANGED <<now, connected, req, images, registryVars, backendVars>>

\* a call with a record_type other than capture or project: ValueError
ManifestAppendInvalid ==
    /\ req.kind = "none"
    /\ calls < MaxAppends
    /\ append_manifest_record(generate_manifest_project(calls + 1), "other", "ok")
    /\ calls' = calls + 1
    /\ UNCHANGED <<now, connected, req, images, registryVars, backendVars>>

NextManifest ==
    \/ ManifestAppendCapture
    \/ project_init
    \/ ManifestAppendInvalid

SpecManifest == Init /\ [][NextManifest]_vars

Next ==
    \/ Tick
    \/ \E i \in Cameras : Plug(i)
    \/ \E i \in Cameras : Unplug(i)
    \/ SingleStart
    \/ DualStart
    \/ ApiCheck
    \/ SingleCheck
    \/ SingleCaptureBegin
    \/ SingleCaptureEnd
    \/ SingleRecord
    \/ DualCheck1
    \/ DualCheck2
    \/ DualSubmit1
    \/ DualSleep
    \/ DualSubmit2
    \/ \E k \in 1..2 : WorkerPick(k)
    \/ \E k \in 1..2 : WorkerRun(k)
    \/ \E k \in 1..2 : WorkerEnd(k)
    \/ DualJoin1
    \/ DualJoin2
    \/ DualShutdown
    \/ DualRecord
    \/ ApiRespond

Spec == Init /\ [][Next]_vars

\* ======================================================= camera registry
MaxRegOps == 3          \* registry calls, resolutions and hardware changes

\* LensPosition of the metadata after autofocus: absent, 0 or 4 dioptres
LensPositions == {{}, {0}, {4}}

\* a distance in metres: float('inf') or the quotient num / den
Infinite == [inf |-> TRUE, num |-> 0, den |-> 1]
Quotient(num, den) == [inf |-> FALSE, num |-> num, den |-> den]

\* distance_meters of calibrate_focus:
\* 1 / lens_position if lens_position > 0 else float('inf')
distance_meters(lens_position) ==
    IF lens_position > 0 THEN Quotient(1, lens_position) ELSE Infinite

\* CameraCalibration.calibrate_focus, the result dict: the lens position is
\* read only after a successful cycle and kept only when it is truthy
calibrate_focus(success, lens_position) ==
    LET kept == IF success /\ lens_position # {} /\ lens_position # {0}
                THEN lens_position ELSE {}
    IN  [empty |-> FALSE, success |-> success,
         lens_position |-> kept,
         distance_meters |-> {distance_meters(lp) : lp \in kept}]

\* CameraCalibration.calibrate_white_balance, the result dict: success when
\* the final metadata carries ColourGains and nothing raised
calibrate_white_balance(final_gains) == [empty |-> FALSE, success |-> final_gains]

\* calibration_data a caller may hand to register_camera / update_calibration
CalibrationArgs ==
    {EmptyCalibration,
     [NewCalibrationData(0) EXCEPT !.focus = calibrate_focus(TRUE, {4})],
     [NewCalibrationData(1) EXCEPT !.focus = calibrate_focus(FALSE, {}),
                                   !.white_balance = calibrate_white_balance(TRUE)]}

Keys(cameras) == {id \in HwIds : cameras[id].present}

\* register_camera with force although the identity is already known
register_camera_Overwrite(cameras, hw, camera_index, calibration_data, force, t) ==
    LET hw_id == get_camera_hardware_id(hw, camera_index)
    IN  IF hw_id = NoHwId THEN cameras
        ELSE [cameras EXCEPT ![hw_id] =
                 [present |-> TRUE, model |-> RawInfo(hw[camera_index + 1]).Model,
                  last_seen_index |-> camera_index,
                  first_registered_at |-> t, last_seen_at |-> t,
                  machine_id |-> None, label |-> None,
                  calibration |-> calibration_data, calibrated_at |-> {}]]

\* CameraRegistry.register_camera on the dict self.cameras["cameras"]
register_camera(cameras, hw, camera_index, calibration_data, force, t) ==
    LET hw_id == get_camera_hardware_id(hw, camera_index)
    IN  IF hw_id = NoHwId THEN cameras
        ELSE IF cameras[hw_id].present /\ ~force
        THEN [cameras EXCEPT ![hw_id].last_seen_index = camera_index,
                             ![hw_id].last_seen_at = t]
        ELSE [cameras EXCEPT ![hw_id] =
                 [present |-> TRUE, model |-> RawInfo(hw[camera_index + 1]).Model,
                  last_seen_index |-> camera_index,
                  first_registered_at |-> t, last_seen_at |-> t,
                  machine_id |-> None, label |-> None,
                  calibration |-> calibration_data, calibrated_at |-> {}]]

\* CameraRegistry.update_calibration
update_calibration(cameras, hardware_id, calibration_data, t) ==
    IF cameras[hardware_id].present
    THEN [cameras EXCEPT ![hardware_id].calibration = calibration_data,
                         ![hardware_id].calibrated_at = {t}]
    ELSE cameras

\* set_camera_info that drops the entry when both arguments are None
set_camera_info_Clear(cameras, hardware_id, machine_id, label) ==
    IF cameras[hardware_id].present
    THEN IF machine_id = None /\ label = None
         THEN [cameras EXCEPT ![hardware_id] = NoEntry]
         ELSE [cameras EXCEPT
                  ![hardware_id].machine_id = IF machine_id # None THEN machine_id ELSE @,
                  ![hardware_id].label = IF label # None THEN label ELSE @]
    ELSE cameras

\* CameraRegistry.set_camera_info; None leaves a field as it is
set_camera_info(cameras, hardware_id, machine_id, label) ==
    IF cameras[hardware_id].present
    THEN [cameras EXCEPT
             ![hardware_id].machine_id = IF machine_id # None THEN machine_id ELSE @,
             ![hardware_id].label = IF label # None THEN label ELSE @]
    ELSE cameras

\* the listings one change of the hardware leads to: the last camera is
\* unplugged, a camera is plugged in, or two cameras trade places
Moves(hw) ==
    {p \in Placements : \/ Len(hw) > 0 /\ p = SubSeq(hw, 1, Len(hw) - 1)
                        \/ Len(p) > 0 /\ hw = SubSeq(p, 1, Len(p) - 1)
                        \/ Len(hw) = 2 /\ p = <<hw[2], hw[1]>>}

\* cameras are plugged, unplugged or moved between the connectors
Replug ==
    /\ regClock < MaxRegOps
    /\ \E p \in Moves(hwList) : hwList' = p
    /\ regClock' = regClock + 1
    /\ UNCHANGED <<regFile, inst, resolved>>
    /\ UNCHANGED <<coreVars, backendVars>>

\* CameraRegistry(): __init__ loads the document into self.cameras
Construct(i) ==
    /\ ~inst[i].born
    /\ inst' = [inst EXCEPT ![i] = [born |-> TRUE, cameras |-> regFile]]
    /\ UNCHANGED <<hwList, regFile, regClock, resolved>>
    /\ UNCHANGED <<coreVars, backendVars>>

\* registry.register_camera(camera_index, calibration_data, force); the
\* document is rewritten from self.cameras when an identity was found
RegisterCameraCall(i, camera_index, cal, force) ==
    /\ inst[i].born
    /\ regClock < MaxRegOps
    /\ LET new == register_camera(inst[i].cameras, hwList, camera_index,
                               cal, force, regClock + 1)
       IN  /\ inst' = [inst EXCEPT ![i].cameras = new]
           /\ regFile' = IF get_camera_hardware_id(hwList, camera_index) # NoHwId
                         THEN new ELSE regFile
    /\ regClock' = regClock + 1
    /\ UNCHANGED <<hwList, resolved>>
    /\ UNCHANGED <<coreVars, backendVars>>

RegisterCamera(i) ==
    \E camera_index \in Cameras, cal \in CalibrationArgs, force \in BOOLEAN :
        RegisterCameraCall(i, camera_index, cal, force)

\* registry.update_calibration(hardware_id, calibration_data)
UpdateCalibration(i) ==
    /\ inst[i].born
    /\ regClock < MaxRegOps
    /\ \E hardware_id \in HwIds, cal \in CalibrationArgs \ {EmptyCalibration} :
         LET new == update_calibration(inst[i].cameras, hardware_id, cal, regClock + 1)
         IN  /\ inst' = [inst EXCEPT ![i].cameras = new]
             /\ regFile' = IF inst[i].cameras[hardware_id].present
                           THEN new ELSE regFile
    /\ regClock' = regClock + 1
    /\ UNCHANGED <<hwList, resolved>>
    /\ UNCHANGED <<coreVars, backendVars>>

\* registry.set_camera_info(hardware_id, machine_id, label)
SetCameraInfo(i) ==
    /\ inst[i].born
    /\ regClock < MaxRegOps
    /\ \E hardware_id \in HwIds, machine_id \in {None, "CAM-L"},
          label \in {None, "Left Scanner"} :
         LET new == set_camera_info(inst[i].cameras, hardware_id, machine_id, label)
         IN  /\ inst' = [inst EXCEPT ![i].cameras = new]
             /\ regFile' = IF inst[i].cameras[hardware_id].present
                           THEN new ELSE regFile
    /\ regClock' = regClock + 1
    /\ UNCHANGED <<hwList, resolved>>
    /\ UNCHANGED <<coreVars, backendVars>>

calibration_saved_Always(result) == TRUE

\* 'if result["success"]:' of the calibration endpoints and
\* 'if focus_result["success"]:' of initialize_camera_system: the guard of
\* the registry write
calibration_saved(result) == result.success

\* POST /calibrate (calibrate_camera): a new CameraCalibration runs
\* calibrate_focus; Picamera2(camera_index) raises when no camera is listed
\* at the index and the endpoint answers failure.  Only a successful result
\* is saved: a new CameraRegistry registers the camera and replaces its
\* calibration by the calibrator's calibration_data, both within one
\* clock step.  calRun keeps the run the endpoint made.
CalibrateFocusEndpoint ==
    /\ regClock < MaxRegOps
    /\ \E camera_index \in Cameras, success \in BOOLEAN, lp \in LensPositions :
         LET absent == camera_index >= Len(hwList)
             result == calibrate_focus(success, lp)
             data == [NewCalibrationData(camera_index) EXCEPT !.focus = result]
             hw_id == get_camera_hardware_id(hwList, camera_index)
             registered == register_camera(regFile, hwList, camera_index,
                                           EmptyCalibration, FALSE, regClock + 1)
         IN  /\ absent => ~success
             /\ ~success => lp = {}
             /\ regFile' = IF ~absent /\ calibration_saved(result)
                           THEN update_calibration(registered, hw_id, data, regClock + 1)
                           ELSE regFile
             /\ calRun' = [kind |-> "focus", runs |-> calRun.runs,
                           camera_index |-> camera_index, cycle |-> success,
                           reading |-> lp, raised |-> absent,
                           calibration_data |->
                               IF absent THEN NewCalibrationData(camera_index)
                               ELSE data]
    /\ regClock' = regClock + 1
    /\ UNCHANGED <<hwList, inst, resolved>>
    /\ UNCHANGED <<coreVars, picameraVars, rpicamVars, calHandles>>

\* POST /calibrate/white-balance (calibrate_white_balance): as above with
\* calibrate_white_balance, which catches its own exceptions
CalibrateWhiteBalanceEndpoint ==
    /\ regClock < MaxRegOps
    /\ \E camera_index \in Cameras, final_gains \in BOOLEAN :
         LET absent == camera_index >= Len(hwList)
             result == calibrate_white_balance(~absent /\ final_gains)
             data == [NewCalibrationData(camera_index) EXCEPT !.white_balance = result]
             hw_id == get_camera_hardware_id(hwList, camera_index)
             registered == register_camera(regFile, hwList, camera_index,
                                           EmptyCalibration, FALSE, regClock + 1)
         IN  /\ absent => ~final_gains
             /\ regFile' = IF ~absent /\ calibration_saved(result)
                           THEN update_calibration(registered, hw_id, data, regClock + 1)
                           ELSE regFile
             /\ calRun' = [kind |-> "white_balance", runs |-> calRun.runs,
                           camera_index |-> camera_index, cycle |-> FALSE,
                           reading |-> {}, raised |-> FALSE,
                           calibration_data |-> data]
    /\ regClock' = regClock + 1
    /\ UNCHANGED <<hwList, inst, resolved>>
    /\ UNCHANGED <<coreVars, picameraVars, rpicamVars, calHandles>>

\* what one calibrate_focus run of initialize_camera_system yields: whether
\* the autofocus cycle succeeded and the LensPosition read after it
FocusRuns ==
    {run \in BOOLEAN \X LensPositions : ~run[1] => run[2] = {}}

\* the loop of initialize_camera_system from index idx on: register_camera,
\* then, when run_calibration, calibrate_focus and, on success, the print of
\* the lens position with :.2f (TypeError on None, which ends the function)
\* and update_calibration.  The value is the document as last saved.
RECURSIVE initialize_cameras(_, _, _, _, _, _)
initialize_cameras(cameras, hw, idx, run_calibration, runs, t) ==
    IF idx >= Len(hw) THEN cameras
    ELSE LET hw_id == get_camera_hardware_id(hw, idx)
             registered == register_camera(cameras, hw, idx, EmptyCalibration, FALSE, t)
             result == calibrate_focus(runs[idx][1], runs[idx][2])
             data == [NewCalibrationData(idx) EXCEPT !.focus = result]
         IN  IF ~run_calibration \/ ~calibration_saved(result)
             THEN initialize_cameras(registered, hw, idx + 1, run_calibration, runs, t)
             ELSE IF result.lens_position = {}
             THEN registered
             ELSE initialize_cameras(update_calibration(registered, hw_id, data, t),
                                     hw, idx + 1, run_calibration, runs, t)

\* initialize_camera_system(run_calibration) with the outcome runs[idx] of
\* the focus run on each detected index
InitializeCameraSystemCall(run_calibration, runs) ==
    /\ regClock < MaxRegOps
    /\ \A idx \in Cameras :
          (idx >= Len(hwList) \/ ~run_calibration) => runs[idx] = <<FALSE, {}>>
    /\ regFile' = initialize_cameras(regFile, hwList, 0, run_calibration, runs,
                                     regClock + 1)
    /\ regClock' = regClock + 1
    /\ UNCHANGED <<hwList, inst, resolved>>
    /\ UNCHANGED <<coreVars, backendVars>>

InitializeCameraSystem ==
    \E run_calibration \in BOOLEAN, runs \in [Cameras -> FocusRuns] :
        InitializeCameraSystemCall(run_calibration, runs)

\* default_camera_config_from_registry applying any stored focus result
default_camera_config_from_registry_AnyFocus(cameras, hw, camera_index) ==
    LET hw_id == get_camera_hardware_id(hw, camera_index)
        camera_data == IF hw_id = NoHwId THEN NoEntry ELSE cameras[hw_id]
        use == camera_data.present /\ ~camera_data.calibration.focus.empty
        lens_position == camera_data.calibration.focus.lens_position
    IN  [called |-> TRUE, camera_index |-> camera_index,
         raised |-> use /\ lens_position = {}, hw_id |-> hw_id,
         autofocus_on_capture |-> ~use,
         lens_position |-> IF use THEN lens_position ELSE {}]

\* project_manager.py default_camera_config_from_registry: the entry is
\* looked up by get_camera_by_index; formatting a lens position of None
\* with :.2f raises TypeError
default_camera_config_from_registry(cameras, hw, camera_index) ==
    LET hw_id == get_camera_hardware_id(hw, camera_index)
        camera_data == IF hw_id = NoHwId THEN NoEntry ELSE cameras[hw_id]
        use == camera_data.present /\ camera_data.calibration.focus.success
        lens_position == camera_data.calibration.focus.lens_position
    IN  [called |-> TRUE, camera_index |-> camera_index,
         raised |-> use /\ lens_position = {}, hw_id |-> hw_id,
         autofocus_on_capture |-> ~use,
         lens_position |-> IF use THEN lens_position ELSE {}]

\* a caller resolves the config of an index with a new CameraRegistry
ResolveConfig ==
    /\ regClock < MaxRegOps
    /\ \E camera_index \in Cameras :
         resolved' = default_camera_config_from_registry(regFile, hwList, camera_index)
    /\ regClock' = regClock + 1
    /\ UNCHANGED <<hwList, regFile, inst>>
    /\ UNCHANGED <<coreVars, backendVars>>

NextRegistry ==
    \/ Replug
    \/ \E i \in Instances : Construct(i)
    \/ \E i \in Instances : RegisterCamera(i)
    \/ \E i \in Instances : UpdateCalibration(i)
    \/ \E i \in Instances : SetCameraInfo(i)
    \/ CalibrateFocusEndpoint
    \/ CalibrateWhiteBalanceEndpoint
    \/ ResolveConfig

InitRegistry ==
    /\ InitCore
    /\ connected = Cameras
    /\ hwList \in {<<"A", "N">>, <<"B">>}
    /\ InitRegistryFile
    /\ InitBackend

SpecRegistry == InitRegistry /\ [][NextRegistry]_vars

\* the writers of stored calibrations and the reader of them: the two
\* calibration endpoints, initialize_camera_system and config resolution,
\* each with a CameraRegistry of its own, while cameras are replugged
NextCalibrationStore ==
    \/ Replug
    \/ CalibrateFocusEndpoint
    \/ CalibrateWhiteBalanceEndpoint
    \/ InitializeCameraSystem
    \/ ResolveConfig

SpecCalibrationStore == InitRegistry /\ [][NextCalibrationStore]_vars

\* ===================================================== picamera2 backend
MaxBackendOps == 3      \* calls made to one Picamera2Backend
MaxRpicamCalls == 3   \* RpicamBackend.capture_image calls followed
MaxCalRuns == 2       \* calibration runs followed

\* camera_config values handed to the backend: what the reconfigure test
\* reads (encoding, img_size, flips, buffer_count) and quality, which it
\* does not read; raw is False and the flips keep their default
BackendConfig(i, enc, bc, q) ==
    [camera_index |-> i, encoding |-> enc, raw |-> FALSE,
     img_size |-> IMG_SIZE_MEDIUM, hflip |-> FALSE, vflip |-> FALSE,
     buffer_count |-> bc, quality |-> q]
\* the requests made: one base request per index and the requests that
\* differ from it in one field (encoding, buffer_count, quality, hflip)
BackendConfigs ==
    UNION {{BackendConfig(i, <<"jpg">>, 2, 93),
            BackendConfig(i, <<"png">>, 2, 93),
            BackendConfig(i, <<"jpg">>, 4, 93),
            BackendConfig(i, <<"jpg">>, 2, 95),
            [BackendConfig(i, <<"jpg">>, 2, 93) EXCEPT !.hflip = TRUE]} :
           i \in Cameras}

\* use_yuv of capture_image
UseYuv(camera_config) ==
    camera_config.encoding \in {<<"jpg">>, <<"jpeg">>} /\ ~camera_config.raw

\* the stream configuration a handle holds: the still configuration
\* capture_image builds, or the preview configuration Picamera2.start()
\* falls back to on a handle that was never configured
StillConfiguration(camera_config) ==
    [kind |-> "still", yuv |-> UseYuv(camera_config),
     size |-> camera_config.img_size,
     flip |-> <<camera_config.hflip, camera_config.vflip>>,
     buffer_count |-> camera_config.buffer_count]
PreviewConfiguration ==
    [kind |-> "preview", yuv |-> FALSE, size |-> NoSize,
     flip |-> <<FALSE, FALSE>>, buffer_count |-> 0]

\* a Picamera2 handle just opened
NewHandle(camera_index) ==
    [index |-> camera_index, open |-> TRUE, started |-> FALSE, configured |-> {}]

needs_reconfigure_Quality(camera_config) ==
    LET i == camera_config.camera_index
    IN  \/ last_configs[i] = {}
        \/ format_mode[i] # {UseYuv(camera_config)}
        \/ \E last \in last_configs[i] :
              \/ last.img_size # camera_config.img_size
              \/ last.hflip # camera_config.hflip
              \/ last.vflip # camera_config.vflip
              \/ last.buffer_count # camera_config.buffer_count
              \/ last.quality # camera_config.quality

\* needs_reconfigure of capture_image
needs_reconfigure(camera_config) ==
    LET i == camera_config.camera_index
    IN  \/ last_configs[i] = {}
        \/ format_mode[i] # {UseYuv(camera_config)}
        \/ \E last \in last_configs[i] :
              \/ last.img_size # camera_config.img_size
              \/ last.hflip # camera_config.hflip
              \/ last.vflip # camera_config.vflip
              \/ last.buffer_count # camera_config.buffer_count

\* where a capture_image call raises, if it does: any call into Picamera2
\* can raise and capture_image turns it into RuntimeError
CaptureFailures == {"none", "open", "stop", "configure", "start", "capture"}

\* Picamera2Backend.capture_image(output_path, camera_config): the cached
\* handle or a new one (Picamera2(i) raises when no camera is listed at i),
\* stop and configure when needs_reconfigure, start when not started, then
\* the capture request.  A step that raises ends the call; what the earlier
\* steps did stays.  lastCapture notes what the call saw and did:
\* last_config and last_format as read before needs_reconfigure, whether the
\* handle was new, whether the reconfigure branch was entered, whether the
\* capture request was made and on which stream configuration.
CaptureImage ==
    /\ ops < MaxBackendOps
    /\ \E camera_config \in BackendConfigs, fail \in CaptureFailures :
         LET i == camera_config.camera_index
             cached == picams[i] # 0
             absent == i >= Len(hwList)
             failOpen == ~cached /\ (absent \/ fail = "open")
             h == IF cached THEN picams[i] ELSE Len(handles) + 1
             hs0 == IF cached THEN handles ELSE Append(handles, NewHandle(i))
             reconf == needs_reconfigure(camera_config)
             failStop == reconf /\ hs0[h].started /\ fail = "stop"
             hs1 == IF reconf /\ hs0[h].started /\ ~failStop
                    THEN [hs0 EXCEPT ![h].started = FALSE] ELSE hs0
             failConfigure == reconf /\ ~failStop /\ fail = "configure"
             configured == reconf /\ ~failStop /\ ~failConfigure
             hs2 == IF configured
                    THEN [hs1 EXCEPT ![h].configured = {StillConfiguration(camera_config)}]
                    ELSE hs1
             reached == ~failStop /\ ~failConfigure
             failStart == reached /\ ~hs2[h].started /\ fail = "start"
             hs3 == IF reached /\ ~hs2[h].started /\ ~failStart
                    THEN [hs2 EXCEPT ![h].started = TRUE,
                                     ![h].configured =
                                        IF @ = {} THEN {PreviewConfiguration} ELSE @]
                    ELSE hs2
         IN  /\ (absent /\ ~cached) => fail = "none"
             /\ (fail = "open") => ~cached
             /\ (fail = "stop") => (~failOpen /\ reconf /\ hs0[h].started)
             /\ (fail = "configure") => (~failOpen /\ reconf)
             /\ (fail = "start") => (~failOpen /\ ~hs2[h].started)
             /\ IF failOpen
                THEN UNCHANGED <<picams, handles, last_configs, format_mode>>
                ELSE /\ picams' = [picams EXCEPT ![i] = h]
                     /\ handles' = hs3
                     /\ last_configs' = IF configured
                                        THEN [last_configs EXCEPT ![i] = {camera_config}]
                                        ELSE last_configs
                     /\ format_mode' = IF configured
                                       THEN [format_mode EXCEPT ![i] = {UseYuv(camera_config)}]
                                       ELSE format_mode
             /\ lastCapture' =
                  [called |-> TRUE,
                   camera_config |-> {camera_config},
                   last_config |-> last_configs[i],
                   last_format |-> format_mode[i],
                   new_handle |-> ~cached /\ ~failOpen,
                   reconfigured |-> ~failOpen /\ reconf,
                   requested |-> ~failOpen /\ reached /\ ~failStart,
                   raised |-> fail # "none" \/ failOpen,
                   configuration |-> IF ~failOpen /\ reached /\ ~failStart
                                     THEN hs3[h].configured ELSE {}]
    /\ ops' = ops + 1
    /\ UNCHANGED <<camera_info, lastConnected>>
    /\ UNCHANGED <<coreVars, registryVars, rpicamVars, calibrationVars>>

\* the body of cleanup's loop for one cached handle: stop() if started,
\* then close(), inside one try; a call that raises changes nothing and
\* the except clause only logs
cleanup_handle(handle, stopRaises, closeRaises) ==
    IF handle.started /\ stopRaises THEN handle
    ELSE LET stopped == [handle EXCEPT !.started = FALSE]
         IN  IF closeRaises THEN stopped
             ELSE [stopped EXCEPT !.open = FALSE]

\* Picamera2Backend.cleanup: the loop over the cached handles, then
\* self._cameras.clear(); _last_configs and _format_mode are left as they are
Cleanup ==
    /\ ops < MaxBackendOps
    /\ \E stopRaises \in SUBSET Cameras, closeRaises \in SUBSET Cameras :
         /\ \A i \in stopRaises : picams[i] # 0 /\ handles[picams[i]].started
         /\ \A i \in closeRaises : picams[i] # 0 /\ i \notin stopRaises
         /\ handles' = [h \in DOMAIN handles |->
                          IF picams[handles[h].index] = h
                          THEN cleanup_handle(handles[h],
                                              handles[h].index \in stopRaises,
                                              handles[h].index \in closeRaises)
                          ELSE handles[h]]
    /\ picams' = [i \in Cameras |-> 0]
    /\ ops' = ops + 1
    /\ UNCHANGED <<camera_info, last_configs, format_mode>>
    /\ UNCHANGED <<lastCapture, lastConnected>>
    /\ UNCHANGED <<coreVars, registryVars, rpicamVars, calibrationVars>>

\* Picamera2Backend._get_camera_info: the listing is fetched on the first
\* call and kept in self._camera_info
get_camera_info_cached ==
    IF camera_info = {} THEN {hwList} ELSE camera_info

\* Picamera2Backend.is_camera_connected(camera_index): the index is looked up
\* in the listing _get_camera_info returns
IsCameraConnected ==
    /\ ops < MaxBackendOps
    /\ camera_info' = get_camera_info_cached
    /\ \E camera_index \in Cameras :
         lastConnected' =
            [called |-> TRUE, camera_index |-> camera_index,
             answer |-> \E cameras \in get_camera_info_cached :
                           camera_index < Len(cameras)]
    /\ ops' = ops + 1
    /\ UNCHANGED <<picams, handles, last_configs, format_mode, lastCapture>>
    /\ UNCHANGED <<coreVars, registryVars, rpicamVars, calibrationVars>>

\* a camera is plugged, unplugged or moved while the backend lives
BackendReplug ==
    /\ ops < MaxBackendOps
    /\ \E p \in Moves(hwList) : hwList' = p
    /\ ops' = ops + 1
    /\ UNCHANGED <<regFile, inst, regClock, resolved>>
    /\ UNCHANGED <<camera_info, picams, handles, last_configs, format_mode>>
    /\ UNCHANGED <<lastCapture, lastConnected>>
    /\ UNCHANGED <<coreVars, rpicamVars, calibrationVars>>

NextBackend ==
    \/ CaptureImage
    \/ Cleanup
    \/ IsCameraConnected
    \/ BackendReplug

InitBackendHardware ==
    /\ InitCore
    /\ connected = Cameras
    /\ hwList \in {<<"A", "B">>, <<"A">>}
    /\ InitRegistryFile
    /\ InitBackend

SpecBackend == InitBackendHardware /\ [][NextBackend]_vars


(***************************************************************************)
(* The calibration procedures: CameraCalibration.calibrate_focus and       *)
(* CameraCalibration.calibrate_white_balance on the Picamera2 handle each  *)
(* of them opens                                                           *)
(***************************************************************************)

\* LensPosition in the metadata read after the autofocus cycle: absent, 0,
\* a positive and a negative value
LensReadings == LensPositions \cup {{0 - 1}}

\* the hardware call of a procedure that raises, if one does, in call order
CalibrationFailures ==
    {"none", "open", "configure", "start", "set_controls", "autofocus_cycle",
     "capture_metadata", "stop", "close"}

\* the handle a procedure leaves behind when the call named by fail raised
\* ("none": it ran to picam2.close()); Picamera2(camera_index) itself
\* raising leaves no handle
calibration_handle(camera_index, fail) ==
    [index |-> camera_index,
     open |-> fail # "none",
     started |-> fail \in {"set_controls", "autofocus_cycle", "capture_metadata", "stop"}]

\* CameraCalibration(camera_index).calibrate_focus(): no try block, so a
\* call that raises ends the procedure there, before stop(), close() and the
\* assignment to calibration_data["focus"]
CalibrateFocus ==
    /\ calRun.runs < MaxCalRuns
    /\ \E camera_index \in Cameras, fail \in CalibrationFailures,
          success \in BOOLEAN, reading \in LensReadings :
         LET metadataRead == success /\ fail \in {"none", "stop", "close"}
             data == NewCalibrationData(camera_index)
         IN  /\ (camera_index >= Len(hwList)) => fail = "open"
             /\ fail \in {"open", "configure", "start", "set_controls",
                           "autofocus_cycle"} => ~success
             /\ (fail = "capture_metadata") => success
             /\ ~metadataRead => reading = {}
             /\ calRun' =
                  [kind |-> "focus", runs |-> calRun.runs + 1,
                   camera_index |-> camera_index, cycle |-> success,
                   reading |-> reading, raised |-> fail # "none",
                   calibration_data |->
                       IF fail # "none" THEN data
                       ELSE [data EXCEPT !.focus = calibrate_focus(success, reading)]]
             /\ calHandles' = IF fail = "open" THEN calHandles
                               ELSE Append(calHandles,
                                           calibration_handle(camera_index, fail))
    /\ UNCHANGED <<coreVars, registryVars, picameraVars, rpicamVars>>

\* CameraCalibration(camera_index).calibrate_white_balance(): one try block
\* around everything from Picamera2(camera_index) to the result, stop() and
\* close() included; the except clause records the error in the result,
\* which is stored in calibration_data["white_balance"] either way
CalibrateWhiteBalance ==
    /\ calRun.runs < MaxCalRuns
    /\ \E camera_index \in Cameras,
          fail \in CalibrationFailures \ {"autofocus_cycle"},
          final_gains \in BOOLEAN :
         LET data == NewCalibrationData(camera_index)
         IN  /\ (camera_index >= Len(hwList)) => fail = "open"
             /\ fail \notin {"none", "stop", "close"} => ~final_gains
             /\ calRun' =
                  [kind |-> "white_balance", runs |-> calRun.runs + 1,
                   camera_index |-> camera_index, cycle |-> FALSE,
                   reading |-> {}, raised |-> FALSE,
                   calibration_data |->
                       [data EXCEPT !.white_balance =
                           calibrate_white_balance(fail = "none" /\ final_gains)]]
             /\ calHandles' = IF fail = "open" THEN calHandles
                               ELSE Append(calHandles,
                                           calibration_handle(camera_index, fail))
    /\ UNCHANGED <<coreVars, registryVars, picameraVars, rpicamVars>>

NextCalibration ==
    \/ CalibrateFocus
    \/ CalibrateWhiteBalance

SpecCalibration == InitBackendHardware /\ [][NextCalibration]_vars
(***************************************************************************)
(* The subprocess backend: RpicamBackend.capture_image                     *)
(***************************************************************************)

\* the timeout capture_image passes to subprocess.run, in seconds
RPICAM_TIMEOUT == 10

\* what the rpicam-still process does: how long it takes and how it exits
RpicamDurations == {1, RPICAM_TIMEOUT + 1}
RpicamReturnCodes == {0, 1}
RpicamPaths == {<<"img_a", ".jpg">>, <<"img_b", ".jpg">>}

\* subprocess.run(command, check=True, timeout=10): TimeoutExpired when the
\* process is still running at the timeout, CalledProcessError when it
\* exits with a non-zero code, the completed process otherwise
subprocess_run(duration, returncode) ==
    IF duration > RPICAM_TIMEOUT THEN "TimeoutExpired"
    ELSE IF returncode # 0 THEN "CalledProcessError"
    ELSE "CompletedProcess"

rpicam_capture_image_Swallow(output_path, duration, returncode) ==
    LET run == subprocess_run(duration, returncode)
    IN  IF run = "CalledProcessError"
        THEN [raised |-> "RuntimeError", message |-> "Failed to capture image",
              returned |-> {}]
        ELSE [raised |-> "", message |-> "", returned |-> {output_path}]

\* RpicamBackend.capture_image(output_path, camera_config): the try block
\* around subprocess.run and its two except clauses
rpicam_capture_image(output_path, duration, returncode) ==
    LET run == subprocess_run(duration, returncode)
    IN  IF run = "CompletedProcess"
        THEN [raised |-> "", message |-> "", returned |-> {output_path}]
        ELSE IF run = "CalledProcessError"
        THEN [raised |-> "RuntimeError", message |-> "Failed to capture image",
              returned |-> {}]
        ELSE [raised |-> "RuntimeError", message |-> "Image capture timed out",
              returned |-> {}]

\* one call of RpicamBackend.capture_image; rpicam-still cannot exit with 0
\* for a camera index that is not listed.  The backend object has no field
\* the call reads or writes: the log is only the caller's view.
RpicamCaptureImage ==
    /\ Len(rpicamLog) < MaxRpicamCalls
    /\ \E camera_index \in Cameras, output_path \in RpicamPaths,
          duration \in RpicamDurations, returncode \in RpicamReturnCodes :
         /\ (camera_index >= Len(hwList)) => returncode # 0
         /\ rpicamLog' = Append(rpicamLog,
                [camera_index |-> camera_index, output_path |-> output_path,
                 duration |-> duration, returncode |-> returncode,
                 result |-> rpicam_capture_image(output_path, duration, returncode)])
    /\ UNCHANGED <<coreVars, registryVars, picameraVars, calibrationVars>>

NextRpicam == RpicamCaptureImage

SpecRpicam == InitBackendHardware /\ [][NextRpicam]_vars

\* ================================================================ claims
\* s contains the token sequence pat as a contiguous part
Contains(s, pat) ==
    \E i \in 0..(Len(s) - Len(pat)) : \A j \in 1..Len(pat) : s[i + j] = pat[j]

IsPrefix(s, t) == Len(s) =< Len(t) /\ \A i \in 1..Len(s) : s[i] = t[i]

Failed(k) == req.w[k] \in {"exit", "timeout"}

\* C1: in dual_capture_image with check_camera on, when the check of either
\* camera index answers "not connected" the call raises at once: no capture
\* was submitted or launched, no image was written, no record was appended.
C1_FailFast ==
    (req.kind = "dual" /\ req.check /\ FALSE \in Range(req.checks)) =>
        /\ req.outcome = "raised" /\ req.err = "connectivity"
        /\ \A k \in DOMAIN req.w : req.w[k] = "none"
        /\ req.started = <<>>
        /\ images = {}
        /\ manifest = <<>>

\* the first camera passed its check and the second failed it
C1_Witness ==
    req.kind = "dual" /\ req.check /\ req.checks = <<TRUE, FALSE>>

C3_RecordAfterJoin ==
    (req.kind = "dual" /\ manifest # <<>>) =>
        /\ \A k \in 1..2 : WorkerEnded(req.w[k])
        /\ Len(manifest) = 1
        /\ manifest[1].files = <<[role |-> "left", name |-> req.fname[1]],
                                 [role |-> "right", name |-> req.fname[2]]>>
        /\ manifest[1].cameras = <<req.cfg[1].camera_index, req.cfg[2].camera_index>>

\* the second camera finished first and the record is in the manifest
C3_Witness ==
    /\ req.kind = "dual" /\ manifest # <<>> /\ req.finished = <<2, 1>>
    /\ req.fname[1] # req.fname[2]

\* C4 as stated: when one camera of a dual capture fails, the call still
\* returns a structured result and the other camera's result was retrieved.
C4_FailureSurfaced ==
    (req.kind = "dual" /\ req.outcome # "pending" /\ \E k \in 1..2 : Failed(k)) =>
        /\ req.outcome = "returned"
        /\ \A k \in 1..2 : req.w[k] = "ok" => k \in req.got

\* C5 as stated: a capture request in which a backend capture timed out or
\* exited non-zero leaves a record with status failed or partial and the
\* error in the manifest.
C5_FailureRecorded ==
    (req.outcome \in {"returned", "raised"} /\ \E k \in DOMAIN req.w : Failed(k)) =>
        \E i \in 1..Len(manifest) :
            /\ manifest[i].status \in {"failed", "partial"}
            /\ manifest[i].error # None

\* C6: when the manifest append fails after the captures succeeded, the
\* call raises and the endpoint never answers success.
C6_ManifestFailureSurfaced ==
    req.appendMode \in {"fail_open", "fail_sync"} =>
        /\ req.outcome = "raised" /\ req.err = "manifest"
        /\ req.response # "success"

\* a single capture through the endpoint whose append failed was answered
C6_Witness ==
    /\ req.kind = "single" /\ req.via = "api" /\ req.w = <<"ok">>
    /\ req.appendMode = "fail_open" /\ req.response = "failure"

\* C7: each kind's manifest file holds exactly the records of the appends
\* of that kind that wrote their line, one per line in call order, and an
\* append of either kind leaves every earlier line of both files in place.
C7_LinesInCallOrder ==
    /\ manifest = appends["capture"]
    /\ projectManifest = appends["project"]
    /\ \A i, j \in 1..Len(manifest) :
          i < j => manifest[i].capture_id < manifest[j].capture_id
    /\ \A i, j \in 1..Len(projectManifest) :
          i < j => projectManifest[i].project_id < projectManifest[j].project_id

C7_AppendOnly ==
    /\ []C7_LinesInCallOrder
    /\ [][/\ IsPrefix(manifest, manifest')
          /\ IsPrefix(projectManifest, projectManifest')
          /\ Len(manifest') + Len(projectManifest')
                =< Len(manifest) + Len(projectManifest) + 1]_vars

\* appends of both kinds have written their lines and one call wrote nothing
C7_Witness ==
    /\ Len(manifest) >= 2 /\ Len(projectManifest) >= 1
    /\ calls > Len(manifest) + Len(projectManifest)

C9_NoConcurrentSameIndex ==
    \A j, k \in DOMAIN req.w :
        (j # k /\ req.w[j] = "running" /\ req.w[k] = "running") =>
            req.cfg[j].camera_index # req.cfg[k].camera_index

\* C10 as stated: image files written by distinct captures have distinct
\* names, the two files of one dual capture included.
C10_UniqueNames ==
    \A f, g \in images : f.slot # g.slot => f.name # g.name

\* ---------------------------------------------------------------- C11
\* C11: register_camera without force on an identity the registry object
\* already holds leaves that entry's calibration, label, machine id,
\* first-registered time (and model, calibrated_at) as they were, whatever
\* calibration argument is passed; only last_seen_index and last_seen_at
\* change, no other entry changes, and the document is saved.
C11_RegisterIdempotent ==
    [][\A i \in Instances, camera_index \in Cameras, cal \in CalibrationArgs :
          LET hw_id == get_camera_hardware_id(hwList, camera_index)
              old == inst[i].cameras
              new == inst'[i].cameras
          IN  (/\ hw_id # NoHwId
               /\ old[hw_id].present
               /\ RegisterCameraCall(i, camera_index, cal, FALSE))
              => /\ new[hw_id] = [old[hw_id] EXCEPT
                                     !.last_seen_index = camera_index,
                                     !.last_seen_at = regClock']
                 /\ new[hw_id].calibration = old[hw_id].calibration
                 /\ new[hw_id].label = old[hw_id].label
                 /\ new[hw_id].machine_id = old[hw_id].machine_id
                 /\ new[hw_id].first_registered_at = old[hw_id].first_registered_at
                 /\ \A id \in HwIds \ {hw_id} : new[id] = old[id]
                 /\ regFile' = new]_vars

\* an entry registered with a calibration, labelled, then seen again
C11_Witness ==
    \E i \in Instances, id \in HwIds :
        LET e == inst[i].cameras[id]
        IN  /\ e.present
            /\ ~e.calibration.empty
            /\ e.machine_id # None
            /\ e.last_seen_at > e.first_registered_at

\* ---------------------------------------------------------------- C12
\* C12: no registry operation removes an identity: in every step the set
\* of identities a registry object holds in self.cameras only grows, and
\* so does the set in the document when a calibration endpoint's own
\* registry object (loaded and saved within the step) writes it.
C12_IdentitiesNeverShrink ==
    [][/\ \A i \in Instances :
             inst[i].born => Keys(inst[i].cameras) \subseteq Keys(inst'[i].cameras)
       /\ (CalibrateFocusEndpoint \/ CalibrateWhiteBalanceEndpoint)
             => Keys(regFile) \subseteq Keys(regFile')]_vars

\* a registry object holding two identities after three or more calls
C12_Witness ==
    \E i \in Instances :
        /\ inst[i].born
        /\ Cardinality(Keys(inst[i].cameras)) = 2
        /\ \E id \in Keys(inst[i].cameras) : inst[i].cameras[id].calibrated_at # {}
        /\ regClock >= 3

\* ---------------------------------------------------------------- C13
\* C13: a calibration of one kind through its endpoint keeps the stored
\* sub-record of the other kind: a successful focus calibration in the
\* document is still there after a white-balance calibration of the same
\* camera, and a successful white balance after a focus calibration.
C13_SubRecordsIndependent ==
    [][\A id \in HwIds :
          /\ (CalibrateWhiteBalanceEndpoint
               /\ regFile[id].present /\ regFile[id].calibration.focus.success)
              => regFile'[id].calibration.focus = regFile[id].calibration.focus
          /\ (CalibrateFocusEndpoint
               /\ regFile[id].present /\ regFile[id].calibration.white_balance.success)
              => regFile'[id].calibration.white_balance
                     = regFile[id].calibration.white_balance]_vars

\* ---------------------------------------------------------------- C14
\* C14: the identity derived for a listed camera depends only on its raw
\* hardware info (Model and Id): the info of every camera in the listing
\* yields, at any other index, the identity it yields where it is listed.
C14_IdentityIgnoresIndex ==
    \A k \in DOMAIN hwList, j \in Cameras :
        HwIdOf(RawInfo(hwList[k]), j) = get_camera_hardware_id(hwList, k - 1)

\* ---------------------------------------------------------------- C15
\* C15: a config resolution for an index answers with the identity of the
\* hardware now listed there; without a registry entry for it, or with an
\* entry whose focus calibration is missing or has success = false, it
\* does not raise and leaves autofocus on with no lens position; it turns
\* autofocus off only for an entry with focus.success = true, and then the
\* lens position is that entry's, whichever index it was calibrated at.
C15_ConfigFollowsCalibration ==
    [][ResolveConfig =>
          LET camera_index == resolved'.camera_index
              hw_id == get_camera_hardware_id(hwList, camera_index)
              entry == IF hw_id = NoHwId THEN NoEntry ELSE regFile[hw_id]
              calibrated == entry.present /\ entry.calibration.focus.success
          IN  /\ resolved'.hw_id = hw_id
              /\ ~calibrated => /\ ~resolved'.raised
                                /\ resolved'.autofocus_on_capture
                                /\ resolved'.lens_position = {}
              /\ (~resolved'.raised /\ ~resolved'.autofocus_on_capture)
                    => /\ calibrated
                       /\ resolved'.lens_position = entry.calibration.focus.lens_position
                       /\ resolved'.lens_position # {}
              /\ (calibrated /\ ~resolved'.raised)
                    => ~resolved'.autofocus_on_capture]_vars

\* a camera calibrated at index 0 is resolved at index 1 with its lens position
C15_Witness ==
    /\ resolved.called
    /\ ~resolved.raised
    /\ resolved.camera_index = 1
    /\ ~resolved.autofocus_on_capture
    /\ resolved.lens_position = {4}
    /\ resolved.hw_id # NoHwId
    /\ regFile[resolved.hw_id].calibration.camera_index = 0
    /\ regFile[resolved.hw_id].last_seen_index = 0

\* ---------------------------------------------------------------- C16
\* C16: after cleanup() the handle cache is empty and every handle that
\* was in it is closed and no longer started, also when a stop() or a
\* close() raised during the cleanup.
C16_CleanupReleasesAll ==
    [][Cleanup =>
          /\ \A i \in Cameras : picams'[i] = 0
          /\ \A i \in Cameras :
                picams[i] # 0 => /\ ~handles'[picams[i]].open
                                 /\ ~handles'[picams[i]].started]_vars

\* ---------------------------------------------------------------- C17
\* C17: the record a dual capture appends carries timing.stagger_ms equal
\* to the stagger_ms of the call, for every value including 0.
C17_StaggerRecorded ==
    (req.kind = "dual" /\ manifest # <<>>) =>
        manifest[Len(manifest)].timing = {<<"stagger_ms", req.stagger>>}

\* a dual capture called with stagger_ms = 0 has appended its record
C17_Witness ==
    /\ req.kind = "dual" /\ req.stagger = 0
    /\ manifest # <<>>
    /\ <<"stagger_ms", 0>> \in manifest[1].timing

\* ---------------------------------------------------------------- C18
\* C18: a dual capture takes one identifier from the clock; both filenames
\* begin with it followed by their own camera tag, and the one record it
\* appends has it as pair_id and lists the first camera's file as left and
\* the second camera's file as right.
C18_PairIdentifier ==
    (req.kind = "dual" /\ req.fname # <<>>) =>
        /\ \E t \in 0..now : req.index = TimestampIndex(t)
        /\ \A k \in 1..2 :
              IsPrefix(req.index \o <<"_c", ToString(req.cfg[k].camera_index)>>,
                       req.fname[k])
        /\ manifest # <<>> =>
              /\ Len(manifest) = 1
              /\ manifest[1].pair_id = req.index
              /\ Len(manifest[1].files) = 2
              /\ manifest[1].files[1] = [role |-> "left", name |-> req.fname[1]]
              /\ manifest[1].files[2] = [role |-> "right", name |-> req.fname[2]]

\* a dual capture of cameras 0 and 1 started after the clock moved and
\* recorded its pair
C18_Witness ==
    /\ req.kind = "dual" /\ manifest # <<>>
    /\ req.index = TimestampIndex(1)
    /\ req.cfg[1].camera_index = 0 /\ req.cfg[2].camera_index = 1
    /\ manifest[1].pair_id = TimestampIndex(1)

\* ---------------------------------------------------------------- C19
\* C19: within one request the backend capture of each requested camera
\* is launched at most once: a capture that failed or timed out is not
\* launched again.
C19_NoRetry ==
    /\ Len(req.started) <= Len(req.cfg)
    /\ \A k \in DOMAIN req.cfg :
          Cardinality({n \in DOMAIN req.started : req.started[n] = k}) <= 1

\* a request whose capture timed out has ended, the capture launched once
C19_Witness ==
    /\ req.outcome = "raised" /\ req.err = "capture"
    /\ \E k \in DOMAIN req.w :
          /\ req.w[k] = "timeout"
          /\ Cardinality({n \in DOMAIN req.started : req.started[n] = k}) = 1

\* ---------------------------------------------------------------- C20
\* C20: once a request with a timed-out capture has ended, no partly
\* written file of that capture is left in images/main and the request has
\* not returned a success result.
C20_TimeoutCleanedUp ==
    \A k \in DOMAIN req.w :
        (req.w[k] = "timeout" /\ req.pc \in {"raised", "returned", "responded"})
            => /\ req.outcome # "returned"
               /\ \A img \in images : img.slot = k => img.complete

\* the shape of a request as the claim names it (format, resolution, flip)
\* and as capture_image compares it (buffer_count as well)
SameClaimedShape(last, last_format, camera_config) ==
    /\ last_format = {UseYuv(camera_config)}
    /\ \A l \in last :
          /\ l.img_size = camera_config.img_size
          /\ l.hflip = camera_config.hflip
          /\ l.vflip = camera_config.vflip
SameAppliedShape(last, last_format, camera_config) ==
    /\ SameClaimedShape(last, last_format, camera_config)
    /\ \A l \in last : l.buffer_count = camera_config.buffer_count

\* C23 as stated: a capture on the persistent-handle backend enters the
\* reconfigure branch (stop, then configure) only when format, resolution or
\* flip of the request differ from the configuration last applied to its
\* camera index (or none was applied); no other field triggers it.
C23_ReconfigureOnlyOnShape ==
    \A c \in lastCapture.camera_config :
        lastCapture.reconfigured =>
            \/ lastCapture.last_config = {}
            \/ ~SameClaimedShape(lastCapture.last_config, lastCapture.last_format, c)

\* C23 amended: the shape compared is format, resolution, flip and
\* buffer_count.  A capture reconfigures only when no configuration was
\* applied to the index yet or that shape differs, a capture that reaches
\* the comparison with the same shape does not reconfigure, and a change of
\* quality alone never does.
C23_ReconfigureOnlyOnAppliedShape ==
    \A c \in lastCapture.camera_config :
        lastCapture.reconfigured =>
            \/ lastCapture.last_config = {}
            \/ ~SameAppliedShape(lastCapture.last_config, lastCapture.last_format, c)
C23_Witness ==
    /\ lastCapture.called /\ lastCapture.requested /\ ~lastCapture.raised
    /\ ~lastCapture.reconfigured
    /\ \E c \in lastCapture.camera_config, l \in lastCapture.last_config :
          /\ l.quality # c.quality
          /\ SameAppliedShape(lastCapture.last_config, lastCapture.last_format, c)

\* C24: every capture request on the persistent-handle backend is made on a
\* handle whose stream configuration is the still configuration of the
\* request, also on a handle created after cleanup() for an index whose last
\* applied shape equals the request's.
C24_CaptureOnConfiguredHandle ==
    \A c \in lastCapture.camera_config :
        lastCapture.requested =>
            lastCapture.configuration = {StillConfiguration(c)}

\* C30: is_camera_connected answers from the hardware present at the time of
\* the call: true exactly when a camera is listed at the index now.
C30_ConnectedReflectsHardware ==
    [][IsCameraConnected =>
         (lastConnected'.answer <=> lastConnected'.camera_index < Len(hwList))]_vars

\* C21: on the subprocess backend a capture whose process runs into the
\* timeout or exits with a non-zero code ends in an error and returns no
\* path; a capture whose process completes returns its output path, whatever
\* the earlier calls on the backend did.
C21_RpicamFailureSurfaces ==
    \A k \in DOMAIN rpicamLog :
        LET call == rpicamLog[k]
            failed == call.duration > RPICAM_TIMEOUT \/ call.returncode # 0
        IN  /\ failed => (call.result.raised = "RuntimeError" /\ call.result.returned = {})
            /\ ~failed => (call.result.raised = "" /\ call.result.returned = {call.output_path})
C21_Witness ==
    \E k \in DOMAIN rpicamLog :
        /\ k + 1 \in DOMAIN rpicamLog
        /\ rpicamLog[k].duration > RPICAM_TIMEOUT
        /\ rpicamLog[k].result.raised = "RuntimeError"
        /\ rpicamLog[k + 1].camera_index = rpicamLog[k].camera_index
        /\ rpicamLog[k + 1].result.returned = {rpicamLog[k + 1].output_path}

\* C22: a focus calibration whose autofocus cycle succeeded and which read a
\* LensPosition reports that lens position and the working distance
\* 1 / lens_position, infinite when lens_position <= 0 (0 included); for
\* LensPosition 4 the stored focus result has success, lens position 4 and
\* distance 0.25.
C22_FocusReportsDistance ==
    (calRun.kind = "focus" /\ ~calRun.raised /\ calRun.cycle) =>
        \A lp \in calRun.reading :
            LET focus == calRun.calibration_data.focus
            IN  /\ focus.success
                /\ focus.lens_position = {lp}
                /\ \A d \in focus.distance_meters :
                      IF lp <= 0 THEN d.inf ELSE ~d.inf /\ d.num = 1 /\ d.den = lp
                /\ focus.distance_meters # {}
                /\ (lp = 4) => \A d \in focus.distance_meters :
                                  ~d.inf /\ 100 * d.num = 25 * d.den

\* C28: after a calibration procedure has returned or failed, none of the
\* handles the procedures opened is still open.
C28_CalibrationClosesHandle ==
    \A h \in DOMAIN calHandles : ~calHandles[h].open

\* C25: once a capture request has ended, by returning or by raising, every
\* image file a capture of it wrote in full under images/main is named by a
\* file entry of a manifest record, also the file of the camera that
\* succeeded in a dual capture whose other camera failed.
C25_ImagesRecorded ==
    (req.pc \in {"raised", "returned", "responded"} /\ req.appendMode # "fail_open"
       /\ req.appendMode # "fail_sync") =>
        \A img \in {g \in images : g.complete} :
            \E i \in 1..Len(manifest) :
                \E f \in DOMAIN manifest[i].files :
                    manifest[i].files[f].name = img.name

\* C26: a mutation made through a registry object is a read-modify-write of
\* the persisted document: every entry of the file that the mutation itself
\* does not change is in the file afterwards as it was before, also when it
\* was written by another registry object after this one was constructed.
C26_MutationKeepsPersisted ==
    [][\A i \in Instances :
          (RegisterCamera(i) \/ UpdateCalibration(i) \/ SetCameraInfo(i)) =>
              \A id \in HwIds :
                  inst'[i].cameras[id] = inst[i].cameras[id]
                      => regFile'[id] = regFile[id]]_vars

\* C27: config resolution never fails because of a stored calibration, and a
\* config it returns with autofocus disabled carries a lens position.
C27_ResolvedConfigUsable ==
    resolved.called =>
        /\ ~resolved.raised
        /\ ~resolved.autofocus_on_capture => resolved.lens_position # {}

\* the calibration stored for the camera at an index, {} (no calibration)
\* when the camera has no entry
StoredCalibration(cameras, hw, camera_index) ==
    LET hw_id == get_camera_hardware_id(hw, camera_index)
    IN  IF hw_id # NoHwId /\ cameras[hw_id].present
        THEN cameras[hw_id].calibration ELSE EmptyCalibration

\* C29: a calibration run that ends with success = false leaves the stored
\* calibration of its camera as it was: a focus or white-balance endpoint
\* call whose run failed writes nothing to the registry file, and
\* initialize_camera_system leaves the calibration of every camera whose
\* focus run failed (or was not made) unchanged.
C29_FailedRunKeepsCalibration ==
    [][/\ (/\ CalibrateFocusEndpoint
           /\ ~calRun'.calibration_data.focus.success) => regFile' = regFile
       /\ (/\ CalibrateWhiteBalanceEndpoint
           /\ ~calRun'.calibration_data.white_balance.success) => regFile' = regFile
       /\ \A run_calibration \in BOOLEAN, runs \in [Cameras -> FocusRuns] :
             InitializeCameraSystemCall(run_calibration, runs) =>
                 \A idx \in Cameras :
                     (idx < Len(hwList) /\ ~runs[idx][1]) =>
                         StoredCalibration(regFile', hwList, idx)
                             = StoredCalibration(regFile, hwList, idx)]_vars

\* a focus run through the endpoint failed on a camera whose stored
\* calibration holds a successful focus result
C29_Witness ==
    /\ calRun.kind = "focus"
    /\ ~calRun.calibration_data.focus.success
    /\ calRun.camera_index < Len(hwList)
    /\ StoredCalibration(regFile, hwList, calRun.camera_index).focus.success
====
